---- MODULE Spec2Model ----
(***************************************************************************)
(* Model of the IoT box management API (src/main.py): the pydantic         *)
(* validators, the iot_boxes table with its primary key and its unique     *)
(* index on mac_address, and the request handlers.                         *)
(*                                                                         *)
(* A Python str is modelled as a sequence of one-character strings, so     *)
(* that upper(), the regular expressions and LIKE '%s%' are computed       *)
(* character by character.  None / SQL NULL is the value NULL.             *)
(***************************************************************************)
EXTENDS Integers, Sequences, FiniteSets, TLC

\* ------------------------------------------------------------------ bounds
\* Highest clock value (the clock only moves forward).
MaxTime == 1
\* Highest id the general specifications hand out (number of inserts).
MaxId == 2
\* Highest id the listing specification hands out.
MaxListId == 5
\* Highest clock value of the listing specification.
MaxListTime == 2
\* Most rows of the listing specification that share one created_at.
MaxSameSecond == 2
\* Largest page number and page size a list request is drawn from.
MaxPage == 3
MaxPageSize == 2

\* ----------------------------------------------------------------- strings
\* None in Python, NULL in SQL: no str has an element longer than one character.
NULL == <<"NULL">>

Digits == {"0", "1", "2", "3", "4", "5", "6", "7", "8", "9"}
UpperHex == {"A", "B", "C", "D", "E", "F"}
LowerHex == {"a", "b", "c", "d", "e", "f"}
HexDigits == Digits \cup UpperHex \cup LowerHex
MacSeparators == {":", "-"}

\* str.upper() on one character (ASCII letters; every other character used is caseless).
UpperChar(c) ==
    CASE c = "a" -> "A" [] c = "b" -> "B" [] c = "c" -> "C" [] c = "d" -> "D"
      [] c = "e" -> "E" [] c = "f" -> "F" [] c = "g" -> "G" [] c = "h" -> "H"
      [] c = "i" -> "I" [] c = "j" -> "J" [] c = "k" -> "K" [] c = "l" -> "L"
      [] c = "m" -> "M" [] c = "n" -> "N" [] c = "o" -> "O" [] c = "p" -> "P"
      [] c = "q" -> "Q" [] c = "r" -> "R" [] c = "s" -> "S" [] c = "t" -> "T"
      [] c = "u" -> "U" [] c = "v" -> "V" [] c = "w" -> "W" [] c = "x" -> "X"
      [] c = "y" -> "Y" [] c = "z" -> "Z" [] OTHER -> c

\* str.upper()
Upper(s) == [i \in 1..Len(s) |-> UpperChar(s[i])]

\* Python truthiness of an Optional[str]: None and "" are falsy.
Truthy(v) == v /= NULL /\ Len(v) > 0

\* re.match with a pattern ending in $: $ matches at the end of the string and
\* also just before one trailing newline.
StripDollarNewline(v) ==
    IF Len(v) > 0 /\ v[Len(v)] = "\n" THEN SubSeq(v, 1, Len(v) - 1) ELSE v

\* re.match(r'^([0-9A-Fa-f]{2}[:-]){5}([0-9A-Fa-f]{2})$', v)
MacGroups == 6
MacLen == 3 * MacGroups - 1
MatchesMacPattern(v) ==
    LET w == StripDollarNewline(v) IN
    /\ Len(w) = MacLen
    /\ \A i \in 1..MacLen :
          IF i % 3 = 0 THEN w[i] \in MacSeparators ELSE w[i] \in HexDigits

\* The dot-separated groups of a string, left to right.
RECURSIVE SplitDots(_)
SplitDots(s) ==
    IF \A i \in 1..Len(s) : s[i] /= "."
    THEN <<s>>
    ELSE LET k == CHOOSE i \in 1..Len(s) :
                      s[i] = "." /\ \A j \in 1..(i - 1) : s[j] /= "."
         IN <<SubSeq(s, 1, k - 1)>> \o SplitDots(SubSeq(s, k + 1, Len(s)))

\* re.match(r'^(\d{1,3}\.){3}\d{1,3}$', v)
IpGroups == 4
IpGroupMaxLen == 3
MatchesIpPattern(v) ==
    LET g == SplitDots(StripDollarNewline(v)) IN
    /\ Len(g) = IpGroups
    /\ \A i \in 1..IpGroups :
          /\ Len(g[i]) \in 1..IpGroupMaxLen
          /\ \A j \in 1..Len(g[i]) : g[i][j] \in Digits

\* column.contains(search): LIKE '%search%'; NULL LIKE anything is not true.
Contains(v, s) ==
    /\ v /= NULL
    /\ \E k \in 0..(Len(v) - Len(s)) : SubSeq(v, k + 1, k + Len(s)) = s

\* Code-point order of the characters the model uses (ASCII).
Alphabet ==
    <<"\n", " ", "-", ".", "0", "1", "2", "3", "4", "5", "6", "7", "8", "9", ":",
      "A", "B", "C", "D", "E", "F", "G", "H", "I", "J", "K", "L", "M", "N", "O",
      "P", "Q", "R", "S", "T", "U", "V", "W", "X", "Y", "Z",
      "a", "b", "c", "d", "e", "f", "g", "h", "i", "j", "k", "l", "m", "n", "o",
      "p", "q", "r", "s", "t", "u", "v", "w", "x", "y", "z">>
Ord(c) == CHOOSE i \in 1..Len(Alphabet) : Alphabet[i] = c

\* Python's str comparison a < b (lexicographic by code point).
StrLess(a, b) ==
    \E k \in 1..(Len(b)) :
        /\ \A j \in 1..(k - 1) : j <= Len(a) /\ a[j] = b[j]
        /\ \/ Len(a) = k - 1
           \/ Len(a) >= k /\ Ord(a[k]) < Ord(b[k])

\* sorted(list of distinct str)
RECURSIVE SortedStrs(_)
SortedStrs(S) ==
    IF S = {} THEN <<>>
    ELSE LET m == CHOOSE x \in S : \A y \in S \ {x} : StrLess(x, y)
         IN <<m>> \o SortedStrs(S \ {m})

\* -------------------------------------------------------------- validators
Fields ==
    {"mac_address", "ip_address", "main_equipment", "location", "process",
     "manager", "note"}
\* Columns declared nullable=False that a request can set.
NotNullColumns == {"mac_address", "process"}

\* BoxBase.validate_mac: the error cases.
CreateMacOk(v) == Truthy(v) /\ MatchesMacPattern(v)
\* BoxBase.validate_mac: the value returned.
validate_mac(v) == Upper(v)

\* BoxBase.validate_ip
CreateIpOk(v) == v = NULL \/ MatchesIpPattern(v)
validate_ip(v) == v

\* A validate_process that returns the value as sent.
validate_process_as_sent(v) == v

\* BoxBase.validate_process / BoxUpdate.validate_process
validate_process(v) == IF Truthy(v) THEN Upper(v) ELSE v

\* BoxUpdate.validate_mac: the error cases (None passes).
UpdateMacOk(v) == v = NULL \/ (Truthy(v) /\ MatchesMacPattern(v))
\* BoxUpdate.validate_mac: the value returned.
update_validate_mac(v) == IF v = NULL THEN v ELSE Upper(v)

\* BoxCreate(**body): whether the body passes validation.  mac_address and
\* process are required str fields: None is refused.
BoxCreateOk(p) ==
    /\ p.mac_address /= NULL /\ CreateMacOk(p.mac_address)
    /\ CreateIpOk(p.ip_address)
    /\ p.process /= NULL

\* BoxCreate(**body).dict(): the validated field values.
BoxCreate(p) ==
    [p EXCEPT !.mac_address = validate_mac(p.mac_address),
              !.ip_address = validate_ip(p.ip_address),
              !.process = validate_process(p.process)]

\* BoxUpdate(**body): whether the body passes validation.  p is a function
\* from the fields the body carries to their values.
BoxUpdateOk(p) == "mac_address" \in DOMAIN p => UpdateMacOk(p.mac_address)

\* BoxUpdate.ip_address: the field has no validator in BoxUpdate.
update_ip(v) == v

\* BoxUpdate(**body).dict(exclude_unset=True)
BoxUpdate(p) ==
    [f \in DOMAIN p |->
        CASE f = "mac_address" -> update_validate_mac(p[f])
          [] f = "ip_address" -> update_ip(p[f])
          [] f = "process" -> validate_process(p[f])
          [] OTHER -> p[f]]

\* -------------------------------------------------------------------- state
VARIABLES
    boxes,      \* table iot_boxes: id -> row
    nextId,     \* the table's AUTO_INCREMENT counter
    now,        \* datetime.utcnow(), at the resolution of the DateTime columns
    resp,       \* the request last answered and its response
    txn         \* per worker: the request whose session holds uncommitted work

vars == <<boxes, nextId, now, resp, txn>>

Workers == {"w1", "w2"}
Idle == [pc |-> "idle"]

\* BoxDB(**box.dict()) at flush: the column defaults fill both timestamps.
NewRow(v, t) ==
    [mac_address |-> v.mac_address, ip_address |-> v.ip_address,
     main_equipment |-> v.main_equipment, location |-> v.location,
     process |-> v.process, manager |-> v.manager, note |-> v.note,
     created_at |-> t, updated_at |-> t]

\* db.query(BoxDB).filter(BoxDB.mac_address == mac).first() is not None
MacTaken(store, mac) == \E i \in DOMAIN store : store[i].mac_address = mac

\* A mac_address column declared without unique=True.
UniqueOkNoIndex(store, id, mac) == TRUE

\* Column(..., unique=True): the unique index on mac_address accepts row id
\* holding mac only if no other row holds it.
UniqueOk(store, id, mac) ==
    \A i \in DOMAIN store : i /= id => store[i].mac_address /= mac

\* Column(..., nullable=False) on mac_address and process.
NotNullOk(row) == \A f \in NotNullColumns : row[f] /= NULL

\* INSERT of one row under id.
InsertRow(store, id, row) ==
    [i \in DOMAIN store \cup {id} |-> IF i = id THEN row ELSE store[i]]

\* An update built from box_update.dict() without exclude_unset: the fields
\* the body does not carry are written as None.
ApplyUpdateUnset(row, v, t) ==
    [f \in DOMAIN row |->
        IF f \in DOMAIN v THEN v[f]
        ELSE IF f = "updated_at" THEN t
        ELSE IF f \in Fields THEN NULL
        ELSE row[f]]

\* for key, value in update_data.items(): setattr(db_box, key, value);
\* db_box.updated_at = datetime.utcnow()
ApplyUpdate(row, v, t) ==
    [f \in DOMAIN row |->
        IF f \in DOMAIN v THEN v[f]
        ELSE IF f = "updated_at" THEN t
        ELSE row[f]]

\* A duplicate check that does not except the row's own MAC.
UpdateChecksMacOwnToo(v, row) ==
    /\ "mac_address" \in DOMAIN v
    /\ Truthy(v.mac_address)

\* The guard of update_box's duplicate check.
UpdateChecksMac(v, row) ==
    /\ "mac_address" \in DOMAIN v
    /\ Truthy(v.mac_address)
    /\ v.mac_address /= row.mac_address

\* ---------------------------------------------------------------- requests
\* POST /boxes, the whole handler.  cap bounds the ids handed out.
create_box(p, cap) ==
    /\ nextId <= cap
    /\ UNCHANGED <<now, txn>>
    /\ IF ~BoxCreateOk(p)
       THEN /\ resp' = [op |-> "create", status |-> 422, payload |-> p, id |-> 0]
            /\ UNCHANGED <<boxes, nextId>>
       ELSE LET v == BoxCreate(p)
                row == NewRow(v, now)
            IN IF MacTaken(boxes, v.mac_address)
               THEN /\ resp' = [op |-> "create", status |-> 400, payload |-> p, id |-> 0]
                    /\ UNCHANGED <<boxes, nextId>>
               ELSE IF ~(NotNullOk(row) /\ UniqueOk(boxes, nextId, row.mac_address))
               THEN /\ resp' = [op |-> "create", status |-> 500, payload |-> p, id |-> 0]
                    /\ UNCHANGED <<boxes, nextId>>
               ELSE /\ boxes' = InsertRow(boxes, nextId, row)
                    /\ nextId' = nextId + 1
                    /\ resp' = [op |-> "create", status |-> 201, payload |-> p,
                                id |-> nextId]

\* PUT /boxes/{box_id}, the whole handler.
update_box(id, p) ==
    /\ UNCHANGED <<nextId, now, txn>>
    /\ IF ~BoxUpdateOk(p)
       THEN /\ resp' = [op |-> "update", status |-> 422, payload |-> p, id |-> id]
            /\ UNCHANGED boxes
       ELSE IF id \notin DOMAIN boxes
       THEN /\ resp' = [op |-> "update", status |-> 404, payload |-> p, id |-> id]
            /\ UNCHANGED boxes
       ELSE LET v == BoxUpdate(p)
                row == ApplyUpdate(boxes[id], v, now)
            IN IF UpdateChecksMac(v, boxes[id]) /\ MacTaken(boxes, v.mac_address)
               THEN /\ resp' = [op |-> "update", status |-> 400, payload |-> p,
                                id |-> id]
                    /\ UNCHANGED boxes
               ELSE IF ~(NotNullOk(row) /\ UniqueOk(boxes, id, row.mac_address))
               THEN /\ resp' = [op |-> "update", status |-> 500, payload |-> p,
                                id |-> id]
                    /\ UNCHANGED boxes
               ELSE /\ boxes' = [boxes EXCEPT ![id] = row]
                    /\ resp' = [op |-> "update", status |-> 200, payload |-> p,
                                id |-> id]

\* GET /boxes/{box_id}
get_box(id) ==
    /\ UNCHANGED <<boxes, nextId, now, txn>>
    /\ resp' = [op |-> "get", status |-> IF id \in DOMAIN boxes THEN 200 ELSE 404,
                id |-> id]

\* DELETE /boxes/{box_id}
delete_box(id) ==
    /\ UNCHANGED <<nextId, now, txn>>
    /\ IF id \notin DOMAIN boxes
       THEN /\ resp' = [op |-> "delete", status |-> 404, id |-> id]
            /\ UNCHANGED boxes
       ELSE /\ boxes' = [i \in DOMAIN boxes \ {id} |-> boxes[i]]
            /\ resp' = [op |-> "delete", status |-> 204, id |-> id]

\* The clock advances between requests.  cap bounds the clock.
clock_tick(cap) ==
    /\ now < cap
    /\ now' = now + 1
    /\ resp' = [op |-> "tick", status |-> 0]
    /\ UNCHANGED <<boxes, nextId, txn>>

\* ------------------------------------------------- requests, step by step
\* Each request runs in a session of its own: what it read is a snapshot, and
\* the table changes only when its commit is applied.  w is the worker
\* serving the request.

\* The flush of an update: only attributes whose value differs from the one
\* loaded are written; updated_at is written with them.
ApplyChanged(cur, loaded, v, t) ==
    LET changed == {f \in DOMAIN v : v[f] /= loaded[f]}
    IN IF changed = {} /\ loaded.updated_at = t
       THEN cur
       ELSE [f \in DOMAIN cur |->
                IF f \in changed THEN v[f]
                ELSE IF f = "updated_at" THEN t
                ELSE cur[f]]

\* create_box up to db.add: validation and the existence check.
create_check(w, p, cap) ==
    /\ txn[w].pc = "idle"
    /\ nextId + Cardinality({u \in Workers : txn[u].pc = "insert"}) <= cap
    /\ UNCHANGED <<boxes, nextId, now>>
    /\ IF ~BoxCreateOk(p)
       THEN /\ resp' = [op |-> "create", status |-> 422, payload |-> p, id |-> 0]
            /\ UNCHANGED txn
       ELSE IF MacTaken(boxes, BoxCreate(p).mac_address)
       THEN /\ resp' = [op |-> "create", status |-> 400, payload |-> p, id |-> 0]
            /\ UNCHANGED txn
       ELSE /\ txn' = [txn EXCEPT ![w] = [pc |-> "insert", payload |-> p,
                                          v |-> BoxCreate(p)]]
            /\ UNCHANGED resp

\* create_box from db.commit(): the INSERT, which the table's constraints may
\* refuse (an IntegrityError the handler does not catch).  Whether a refused
\* INSERT uses up an AUTO_INCREMENT value is the storage engine's choice.
create_commit(w) ==
    /\ txn[w].pc = "insert"
    /\ txn' = [txn EXCEPT ![w] = Idle]
    /\ UNCHANGED now
    /\ LET row == NewRow(txn[w].v, now)
       IN IF NotNullOk(row) /\ UniqueOk(boxes, nextId, row.mac_address)
          THEN /\ boxes' = InsertRow(boxes, nextId, row)
               /\ nextId' = nextId + 1
               /\ resp' = [op |-> "create", status |-> 201,
                           payload |-> txn[w].payload, id |-> nextId]
          ELSE /\ UNCHANGED boxes
               /\ nextId' \in {nextId, nextId + 1}
               /\ resp' = [op |-> "create", status |-> 500,
                           payload |-> txn[w].payload, id |-> 0]

\* update_box up to db.commit(): validation, the load and the duplicate check.
update_check(w, id, p) ==
    /\ txn[w].pc = "idle"
    /\ UNCHANGED <<boxes, nextId, now>>
    /\ IF ~BoxUpdateOk(p)
       THEN /\ resp' = [op |-> "update", status |-> 422, payload |-> p, id |-> id]
            /\ UNCHANGED txn
       ELSE IF id \notin DOMAIN boxes
       THEN /\ resp' = [op |-> "update", status |-> 404, payload |-> p, id |-> id]
            /\ UNCHANGED txn
       ELSE IF /\ UpdateChecksMac(BoxUpdate(p), boxes[id])
               /\ MacTaken(boxes, BoxUpdate(p).mac_address)
       THEN /\ resp' = [op |-> "update", status |-> 400, payload |-> p, id |-> id]
            /\ UNCHANGED txn
       ELSE /\ txn' = [txn EXCEPT ![w] = [pc |-> "update", id |-> id, payload |-> p,
                                          v |-> BoxUpdate(p), loaded |-> boxes[id]]]
            /\ UNCHANGED resp

\* update_box from db.commit(): the UPDATE of the row loaded.  It fails when
\* the row is gone (StaleDataError) or a constraint refuses the new values.
update_commit(w) ==
    /\ txn[w].pc = "update"
    /\ txn' = [txn EXCEPT ![w] = Idle]
    /\ UNCHANGED <<nextId, now>>
    /\ LET id == txn[w].id
       IN IF id \notin DOMAIN boxes
          THEN /\ UNCHANGED boxes
               /\ resp' = [op |-> "update", status |-> 500,
                           payload |-> txn[w].payload, id |-> id]
          ELSE LET row == ApplyChanged(boxes[id], txn[w].loaded, txn[w].v, now)
               IN IF NotNullOk(row) /\ UniqueOk(boxes, id, row.mac_address)
                  THEN /\ boxes' = [boxes EXCEPT ![id] = row]
                       /\ resp' = [op |-> "update", status |-> 200,
                                   payload |-> txn[w].payload, id |-> id]
                  ELSE /\ UNCHANGED boxes
                       /\ resp' = [op |-> "update", status |-> 500,
                                   payload |-> txn[w].payload, id |-> id]

\* ------------------------------------------------------------------ queries
SearchColumns ==
    {"mac_address", "ip_address", "main_equipment", "location", "process",
     "manager"}

\* The WHERE clause of get_boxes and export_to_excel.
Matches(row, search, process) ==
    /\ Truthy(search) => \E f \in SearchColumns : Contains(row[f], search)
    /\ Truthy(process) => row.process = process

Matching(store, search, process) ==
    {i \in DOMAIN store : Matches(store[i], search, process)}

\* ORDER BY created_at DESC: every order of the ids S the clause allows.  The
\* clause names no second key, so rows with equal created_at come in any order.
RECURSIVE OrderByCreatedDesc(_, _)
OrderByCreatedDesc(store, S) ==
    IF S = {} THEN {<<>>}
    ELSE LET newest == {i \in S : \A j \in S : store[i].created_at >= store[j].created_at}
         IN UNION {{<<i>> \o t : t \in OrderByCreatedDesc(store, S \ {i})} : i \in newest}

\* .offset(offset).limit(page_size) on an ordered result.
OffsetLimit(o, offset, limit) ==
    IF offset >= Len(o) THEN <<>>
    ELSE SubSeq(o, offset + 1, IF offset + limit < Len(o) THEN offset + limit ELSE Len(o))

\* offset = (page - 1) * page_size
PageOffset(page, page_size) == (page - 1) * page_size

\* A page count that rounds down.
TotalPagesFloor(total, page_size) == total \div page_size

\* total_pages = (total + page_size - 1) // page_size
TotalPages(total, page_size) == (total + page_size - 1) \div page_size

\* GET /boxes
get_boxes(page, page_size, search, process) ==
    /\ UNCHANGED <<boxes, nextId, now, txn>>
    /\ LET S == Matching(boxes, search, process)
           total == Cardinality(S)
           offset == PageOffset(page, page_size)
       IN \E items \in {OffsetLimit(o, offset, page_size) :
                           o \in OrderByCreatedDesc(boxes, S)} :
             resp' = [op |-> "list", status |-> 200, page |-> page,
                      page_size |-> page_size, search |-> search,
                      process |-> process, total |-> total,
                      total_pages |-> TotalPages(total, page_size),
                      items |-> items]

\* value or ""
OrEmpty(v) == IF Truthy(v) THEN v ELSE <<>>

\* One worksheet row of export_to_excel (timestamps are written to the second,
\* the resolution the clock is modelled at).
SheetRow(id, row) ==
    <<id, row.mac_address, OrEmpty(row.ip_address), OrEmpty(row.main_equipment),
      OrEmpty(row.location), row.process, OrEmpty(row.manager), OrEmpty(row.note),
      row.created_at, row.updated_at>>

\* GET /boxes/export/excel
export_to_excel(search, process) ==
    /\ UNCHANGED <<boxes, nextId, now, txn>>
    /\ \E o \in OrderByCreatedDesc(boxes, Matching(boxes, search, process)) :
          resp' = [op |-> "export", status |-> 200, search |-> search,
                   process |-> process,
                   rows |-> [k \in 1..Len(o) |-> SheetRow(o[k], boxes[o[k]])]]

\* GET /processes
get_processes ==
    /\ UNCHANGED <<boxes, nextId, now, txn>>
    /\ LET processes == {boxes[i].process : i \in DOMAIN boxes}
           unique_processes == {Upper(q) : q \in {x \in processes : Truthy(x)}}
       IN resp' = [op |-> "processes", status |-> 200,
                   items |-> SortedStrs(unique_processes)]

\* normalize_processes: whether the loop rewrites this row.
NeedsNormalize(row) == Truthy(row.process) /\ row.process /= Upper(row.process)

\* A loop body that refreshes updated_at on every row it visits.
NormalizeRowTouchAll(row, t) ==
    [row EXCEPT !.process = IF Truthy(row.process) THEN Upper(row.process) ELSE row.process,
                !.updated_at = t]

\* normalize_processes: the loop body on one row.
NormalizeRow(row, t) ==
    IF NeedsNormalize(row)
    THEN [row EXCEPT !.process = Upper(row.process), !.updated_at = t]
    ELSE row

\* POST /admin/normalize-processes
normalize_processes ==
    /\ UNCHANGED <<nextId, now, txn>>
    /\ boxes' = [i \in DOMAIN boxes |-> NormalizeRow(boxes[i], now)]
    /\ resp' = [op |-> "normalize", status |-> 200,
                updated_count |->
                    Cardinality({i \in DOMAIN boxes : NeedsNormalize(boxes[i])})]

\* ------------------------------------------------------------------- inputs
\* A MAC string of six groups <<a, b>>: s1 after the first group, s2 after the others.
Mac(a, b, s1, s2) ==
    <<a, b, s1, a, b, s2, a, b, s2, a, b, s2, a, b, s2, a, b>>

MacLowerColon == Mac("a", "a", ":", ":")
MacUpperColon == Mac("A", "A", ":", ":")
MacLowerDash == Mac("a", "a", "-", "-")
MacOther == Mac("0", "b", ":", ":")
MacNotHex == Mac("g", "g", ":", ":")
MacShort == SubSeq(MacLowerColon, 1, MacLen - 3)

IpGood == <<"1", "0", ".", "0", ".", "0", ".", "9", "9", "9">>
IpBad == <<"1", "0", ".", "0">>

Etch == <<"e", "t", "c", "h">>
Cmp == <<"C", "m", "p">>
Line3 == <<"L", "i", "n", "e", " ", "3">>

Payload(m, ip, loc, pr) ==
    [mac_address |-> m, ip_address |-> ip, main_equipment |-> NULL,
     location |-> loc, process |-> pr, manager |-> NULL, note |-> NULL]

\* Bodies of POST /boxes: two devices, and bodies the validators refuse.
CreatePayloads ==
    {Payload(MacLowerColon, NULL, NULL, Etch),
     Payload(MacOther, IpGood, Line3, Cmp),
     Payload(MacOther, IpBad, Line3, Cmp),
     Payload(MacOther, NULL, NULL, NULL)}

\* Bodies of PUT /boxes/{id}: the fields sent, with their values.
UpdatePayloads ==
    {<<>>,
     [ip_address |-> IpBad],
     [process |-> Etch],
     [process |-> NULL],
     [location |-> Line3, note |-> <<>>],
     [mac_address |-> MacOther, process |-> Cmp]}

\* Bodies of POST /boxes that differ in the spelling of the MAC.
MacCreatePayloads ==
    {Payload(m, NULL, NULL, Etch) :
        m \in {MacLowerColon, MacUpperColon, MacLowerDash, MacOther, MacNotHex,
               MacShort, <<>>, NULL}}

\* Bodies of PUT /boxes/{id} that carry a MAC.
MacUpdatePayloads ==
    {[mac_address |-> m] :
        m \in {MacLowerColon, MacLowerDash, MacOther, MacNotHex, <<>>, NULL}}

\* Ids a request may name: the ids handed out so far and one never handed out.
RequestIds == 1..(MaxId + 1)

\* ------------------------------------------------------------ specification
Init ==
    /\ boxes = <<>>
    /\ nextId = 1
    /\ now = 0
    /\ resp = [op |-> "none", status |-> 0]
    /\ txn = [w \in Workers |-> Idle]

Tick == clock_tick(MaxTime)
Create == \E p \in CreatePayloads : create_box(p, MaxId)
Update == \E id \in RequestIds, p \in UpdatePayloads : update_box(id, p)
Get == \E id \in RequestIds : get_box(id)
Delete == \E id \in RequestIds : delete_box(id)
Processes == get_processes
Normalize == normalize_processes
Export == \E search \in {NULL, <<"-">>}, process \in {NULL, Upper(Etch)} :
    export_to_excel(search, process)

Next ==
    \/ Create
    \/ Update
    \/ Delete
    \/ Processes
    \/ Normalize
    \/ Tick

\* Requests handled one at a time, from an empty table.
Spec == Init /\ [][Next]_vars

CreateMac == \E p \in MacCreatePayloads : create_box(p, MaxId)
UpdateMac == \E id \in RequestIds, p \in MacUpdatePayloads : update_box(id, p)

NextMac ==
    \/ CreateMac
    \/ UpdateMac
    \/ Get
    \/ Delete
    \/ Export
    \/ Tick

\* Requests that differ in the MAC they carry, one at a time, from an empty table.
SpecMac == Init /\ [][NextMac]_vars

\* Rows written before the validators uppercased process: the data
\* normalize_processes exists to repair.
Dry == <<"d", "r", "y">>
Wet == <<"W", "e", "t">>
SeedRow(m, pr) == NewRow(Payload(m, NULL, NULL, pr), 0)
SeedStores ==
    {<<SeedRow(Upper(MacLowerColon), Dry)>>,
     <<SeedRow(Upper(MacLowerColon), Dry), SeedRow(Upper(MacOther), Upper(Etch))>>,
     <<SeedRow(Upper(MacLowerColon), Dry), SeedRow(Upper(MacOther), Wet)>>}

InitSeed ==
    /\ boxes \in SeedStores
    /\ nextId = Len(boxes) + 1
    /\ now = 0
    /\ resp = [op |-> "none", status |-> 0]
    /\ txn = [w \in Workers |-> Idle]

\* Bodies of PUT /boxes/{id} that carry a process.
SeedUpdatePayloads == {[process |-> Etch], [process |-> Cmp, note |-> <<>>]}
UpdateSeed == \E id \in RequestIds, p \in SeedUpdatePayloads : update_box(id, p)

NextSeed ==
    \/ Normalize
    \/ UpdateSeed
    \/ Processes
    \/ Delete
    \/ Tick

\* Requests handled one at a time, from a table that holds such rows.
SpecSeed == InitSeed /\ [][NextSeed]_vars

\* The k-th device registered in a listing run: a MAC of its own, the
\* processes alternating, every third device without a location.
HexChars == <<"1", "2", "3", "4", "5", "6", "7", "8", "9", "a", "b", "c", "d", "e", "f">>
ListPayload(k) ==
    Payload(Mac("0", HexChars[k], ":", ":"), NULL,
            IF k % 3 = 0 THEN NULL ELSE Line3,
            IF k % 2 = 1 THEN Etch ELSE Cmp)

\* Values of the search and process parameters of a list request.
ListSearches == {NULL, <<"L", "i", "n", "e">>}
ListProcesses == {NULL, Upper(Etch)}

\* No more than MaxSameSecond of the stored devices were registered within
\* the current second.
CreateList ==
    /\ Cardinality({i \in DOMAIN boxes : boxes[i].created_at = now}) < MaxSameSecond
    /\ create_box(ListPayload(nextId), MaxListId)
TickList == clock_tick(MaxListTime)
\* The device registered first is the one taken out of service.
DeleteList == delete_box(1)
List ==
    \E page \in 1..MaxPage, page_size \in 1..MaxPageSize,
       search \in ListSearches, process \in ListProcesses :
        get_boxes(page, page_size, search, process)
NextList ==
    \/ CreateList
    \/ DeleteList
    \/ List
    \/ TickList

\* Devices registered one after another, deleted and listed.
SpecList == Init /\ [][NextList]_vars

\* Bodies of concurrent requests that carry the same MAC.
ConcCreatePayloads ==
    {Payload(MacLowerColon, NULL, NULL, Etch), Payload(MacUpperColon, NULL, NULL, Etch)}
ConcUpdatePayloads ==
    {[mac_address |-> MacLowerColon], [mac_address |-> MacOther]}

CreateCheck == \E w \in Workers, p \in ConcCreatePayloads : create_check(w, p, MaxId)
CreateCommit == \E w \in Workers : create_commit(w)
UpdateCheck ==
    \E w \in Workers, id \in RequestIds, p \in ConcUpdatePayloads : update_check(w, id, p)
UpdateCommit == \E w \in Workers : update_commit(w)

NextConc ==
    \/ CreateCheck
    \/ CreateCommit
    \/ UpdateCheck
    \/ UpdateCommit
    \/ Delete
    \/ Tick

\* Two workers serve requests at once; a request's check and its commit are
\* separate steps, and other requests run between them.
SpecConc == Init /\ [][NextConc]_vars

\* ------------------------------------------------------------------- claims
\* The canonical form of a MAC string: upper case, groups separated by ':'.
CanonicalMac(v) == [i \in 1..Len(v) |-> IF v[i] = "-" THEN ":" ELSE UpperChar(v[i])]

\* The last request stored the MAC its body carried.
StoredMacRequest ==
    /\ resp.op \in {"create", "update"}
    /\ resp.status \in {200, 201}
    /\ "mac_address" \in DOMAIN resp.payload
    /\ resp.payload.mac_address /= NULL

\* C1: the MAC a request stores is the uppercase colon-separated form of the
\* MAC it carried, so spellings that differ in case or in '-' for ':' are
\* stored as the same string.
C1_MacStoredCanonical ==
    StoredMacRequest =>
        boxes[resp.id].mac_address = CanonicalMac(resp.payload.mac_address)

\* C2: a create whose MAC, in canonical form, is the MAC of a stored box is
\* answered 400 and leaves the table as it was.
C2_DuplicateCreateRejected ==
    [][(/\ resp'.op = "create"
        /\ BoxCreateOk(resp'.payload)
        /\ \E i \in DOMAIN boxes :
              boxes[i].mac_address = CanonicalMac(resp'.payload.mac_address))
       => (resp'.status = 400 /\ boxes' = boxes)]_vars

\* C3: every stored process equals its uppercase form, and GET /processes
\* answers uppercase names, each once, in ascending order.
C3_ProcessUppercase ==
    /\ \A i \in DOMAIN boxes : boxes[i].process = Upper(boxes[i].process)
    /\ resp.op = "processes" =>
          /\ \A k \in 1..Len(resp.items) : resp.items[k] = Upper(resp.items[k])
          /\ \A a, b \in 1..Len(resp.items) :
                a < b => StrLess(resp.items[a], resp.items[b])
          /\ {resp.items[k] : k \in 1..Len(resp.items)}
                = {Upper(boxes[i].process) : i \in {j \in DOMAIN boxes : Truthy(boxes[j].process)}}

\* C3 witness: two boxes created with "etch" and "Cmp" are listed as CMP, ETCH.
C3_Witness ==
    /\ resp.op = "processes"
    /\ resp.items = <<Upper(Cmp), Upper(Etch)>>

\* C8: an update of an id that is not stored is answered 404; an update whose
\* MAC another row holds is answered 400; neither changes a row; an update to
\* the row's own MAC or to a MAC no row holds is not answered 400.
C8_UpdateErrors ==
    [][resp'.op = "update" /\ BoxUpdateOk(resp'.payload) =>
        LET id == resp'.id
            p == resp'.payload
            hasMac == "mac_address" \in DOMAIN p /\ p.mac_address /= NULL
        IN /\ id \notin DOMAIN boxes => resp'.status = 404
           /\ (/\ id \in DOMAIN boxes
               /\ hasMac
               /\ \E j \in DOMAIN boxes \ {id} :
                     boxes[j].mac_address = Upper(p.mac_address))
              => resp'.status = 400
           /\ resp'.status \in {400, 404} => boxes' = boxes
           /\ (/\ id \in DOMAIN boxes
               /\ hasMac
               /\ \/ boxes[id].mac_address = Upper(p.mac_address)
                  \/ \A j \in DOMAIN boxes :
                        boxes[j].mac_address /= Upper(p.mac_address))
              => resp'.status /= 400]_vars

\* C8 witness: an update was refused because another row holds its MAC.
C8_Witness ==
    /\ resp.op = "update"
    /\ resp.status = 400
    /\ \E j \in DOMAIN boxes \ {resp.id} :
          boxes[j].mac_address = Upper(resp.payload.mac_address)

\* The value a successful update stores for field f sent as x.
StoredForm(f, x) ==
    IF f \in {"mac_address", "process"} /\ Truthy(x) THEN Upper(x) ELSE x

\* C9: a successful update sets the fields its body carries, refreshes
\* updated_at, and leaves the row's other fields, its created_at, the set of
\* ids and every other row as they were.
C9_UpdateFrame ==
    [][resp'.op = "update" /\ resp'.status = 200 =>
        LET id == resp'.id
            p == resp'.payload
        IN /\ \A f \in DOMAIN p : boxes'[id][f] = StoredForm(f, p[f])
           /\ boxes'[id].updated_at = now
           /\ \A f \in Fields \ DOMAIN p : boxes'[id][f] = boxes[id][f]
           /\ boxes'[id].created_at = boxes[id].created_at
           /\ DOMAIN boxes' = DOMAIN boxes
           /\ \A j \in DOMAIN boxes \ {id} : boxes'[j] = boxes[j]]_vars

\* C9 witness: an update carrying only location and note succeeded on one of
\* two rows, after the clock had moved on from the row's creation.
C9_Witness ==
    /\ resp.op = "update"
    /\ resp.status = 200
    /\ DOMAIN resp.payload = {"location", "note"}
    /\ Cardinality(DOMAIN boxes) = 2
    /\ boxes[resp.id].ip_address = IpGood
    /\ boxes[resp.id].updated_at > boxes[resp.id].created_at

\* C10: every stored ip_address is NULL or four dot-separated groups of one
\* to three digits.
C10_StoredIpWellFormed ==
    \A i \in DOMAIN boxes :
        boxes[i].ip_address = NULL \/ MatchesIpPattern(boxes[i].ip_address)

\* C6: a normalize run rewrites exactly the rows whose process differs from
\* its uppercase form, refreshes updated_at on those rows alone, reports their
\* number and leaves no such row behind; a run right after a run changes
\* nothing and reports 0.
C6_NormalizeIdempotent ==
    [][resp'.op = "normalize" =>
        LET differs(i) == boxes[i].process /= Upper(boxes[i].process)
        IN /\ DOMAIN boxes' = DOMAIN boxes
           /\ \A i \in DOMAIN boxes :
                 boxes'[i] = IF differs(i)
                             THEN [boxes[i] EXCEPT !.process = Upper(boxes[i].process),
                                                   !.updated_at = now]
                             ELSE boxes[i]
           /\ resp'.updated_count = Cardinality({i \in DOMAIN boxes : differs(i)})
           /\ \A i \in DOMAIN boxes' : boxes'[i].process = Upper(boxes'[i].process)
           /\ resp.op = "normalize" => (boxes' = boxes /\ resp'.updated_count = 0)]_vars

\* C6 witness: a run reports 0 on a table holding a row that an earlier run
\* rewrote (only a run turns "dry" into "DRY") after the clock had moved on.
C6_Witness ==
    /\ resp.op = "normalize"
    /\ resp.updated_count = 0
    /\ \E i \in DOMAIN boxes :
          /\ boxes[i].process = Upper(Dry)
          /\ boxes[i].updated_at > boxes[i].created_at

Min(a, b) == IF a < b THEN a ELSE b
Max(a, b) == IF a > b THEN a ELSE b

\* C4: a list response carries the number of rows the filters match, the
\* least number of pages of page_size rows that holds them, and as many items
\* as remain from the page's offset, at most page_size.
C4_Pagination ==
    resp.op = "list" =>
        LET total == Cardinality({i \in DOMAIN boxes :
                                    Matches(boxes[i], resp.search, resp.process)})
        IN /\ resp.total = total
           /\ resp.total_pages * resp.page_size >= total
           /\ (resp.total_pages - 1) * resp.page_size < total
           /\ resp.total_pages >= 0
           /\ Len(resp.items) =
                 Min(resp.page_size,
                     Max(0, total - (resp.page - 1) * resp.page_size))

\* C4 witness: five boxes, page 3 of page size 2: one item, three pages.
C4_Witness ==
    /\ resp.op = "list"
    /\ resp.total = 5
    /\ resp.page = 3
    /\ resp.page_size = 2
    /\ resp.total_pages = 3
    /\ Len(resp.items) = 1

\* The ids S by created_at descending, then id descending.
NewestFirst(store, S) ==
    CHOOSE o \in OrderByCreatedDesc(store, S) :
        \A a, b \in 1..Len(o) :
            (a < b /\ store[o[a]].created_at = store[o[b]].created_at) => o[a] > o[b]

\* C5: the items of a list response are the page's slice of the matching
\* rows by created_at descending and, for equal created_at, by id descending.
C5_OrderNewestFirst ==
    resp.op = "list" =>
          resp.items =
              OffsetLimit(NewestFirst(boxes, Matching(boxes, resp.search, resp.process)),
                          (resp.page - 1) * resp.page_size, resp.page_size)

\* C7: no two stored rows hold the same mac_address, whatever the interleaving
\* of the checks and commits of concurrent requests.
C7_NoDuplicateMac ==
    \A i, j \in DOMAIN boxes : i /= j => boxes[i].mac_address /= boxes[j].mac_address

\* C7 witness: a commit was refused although its request's existence check
\* had passed, because another request stored the MAC in between.
C7_Witness ==
    /\ resp.op \in {"create", "update"}
    /\ resp.status = 500
    /\ "mac_address" \in DOMAIN resp.payload
    /\ \E i \in DOMAIN boxes \ {resp.id} :
          boxes[i].mac_address = Upper(resp.payload.mac_address)

====
